---- MODULE Spec2Model ----
(***************************************************************************)
(* A model of arrow::fs::LocalFileSystem (cpp/src/arrow/filesystem/        *)
(* localfs.cc, POSIX branch): the stat adapter (StatToFileStat, StatFile), *)
(* the recursive directory selector (StatSelector) and the facade          *)
(* operations, over an explicit model of the native filesystem.            *)
(*                                                                         *)
(* Two specifications share the variables:                                 *)
(*   Spec     the facade operations, each a synchronous call that runs to  *)
(*            completion, on a filesystem built up by the calls;           *)
(*   SpecSel  one GetTargetStats(Selector) call, one native call per step, *)
(*            interleaved with another process removing entries.           *)
(***************************************************************************)
EXTENDS Integers, Sequences, FiniteSets, TLC

\* ------------------------------------------------------------------ bounds

\* Longest path, in components below the sandbox root.
MaxDepth == 3
\* Most entries the filesystem holds at once.
MaxEntries == 3
\* Largest byte length of a regular file.
MaxSize == 1
\* Largest Selector.max_recursion tried.
MaxRecursion == 2

\* The names a directory entry can have.
Names == {"a", "b"}

\* ------------------------------------------------------------------- paths

Root == << >>

Paths == UNION {[1..n -> Names] : n \in 0..MaxDepth}

Prefix(p, i) == SubSeq(p, 1, i)

Parent(p) == Prefix(p, Len(p) - 1)

IsUnder(p, d) == Len(p) > Len(d) /\ Prefix(p, Len(d)) = d

\* PlatformFilename::Join
Join(d, name) == Append(d, name)

\* ---------------------------------------------------- the native filesystem

\* What a path names: nothing, a regular file, a directory, another kind of
\* entity (a FIFO), a symbolic link that resolves to itself, or a directory
\* without search and read permission.
Kinds == {"None", "Reg", "Dir", "Fifo", "Loop", "Locked"}

NoNode == [kind |-> "None", st_size |-> 0, tv_sec |-> 0, tv_nsec |-> 0]

\* A node as the kernel creates it: st_size is the byte length of a regular
\* file and the block size the kernel reports for anything else.
NewNode(kind, size) ==
  [kind |-> kind, st_size |-> IF kind = "Reg" THEN size ELSE 4096,
   tv_sec |-> 1, tv_nsec |-> 5]

EmptyFs == [p \in Paths |-> IF p = Root THEN NewNode("Dir", 0) ELSE NoNode]

Entries(f) == {p \in Paths \ {Root} : f[p].kind # "None"}

ChildrenOf(f, d) == {p \in Entries(f) : Len(p) = Len(d) + 1 /\ Parent(p) = d}

\* Every entry lives in a directory.
WellFormed(f) ==
  /\ f[Root].kind = "Dir"
  /\ \A p \in Entries(f) : f[Parent(p)].kind = "Dir"

\* The errno of a path lookup that stops at a component of kind k.
LookupErrno(k) ==
  CASE k = "None" -> "ENOENT"
    [] k \in {"Reg", "Fifo"} -> "ENOTDIR"
    [] k = "Loop" -> "ELOOP"
    [] OTHER -> "EACCES"

\* stat(2): the lookup walks the components in order and fails at the first
\* that is not a searchable directory; a link that resolves to itself is
\* ELOOP. r = 0 with the node's struct stat, or r = -1 with errno.
NativeStat(f, p) ==
  LET stops == {i \in 0..(Len(p) - 1) : f[Prefix(p, i)].kind # "Dir"}
      first == CHOOSE i \in stops : \A j \in stops : i <= j
  IN IF stops # {}
       THEN [r |-> -1, errno |-> LookupErrno(f[Prefix(p, first)].kind), s |-> NoNode]
     ELSE IF f[p].kind \in {"None", "Loop"}
       THEN [r |-> -1, errno |-> LookupErrno(f[p].kind), s |-> NoNode]
     ELSE [r |-> 0, errno |-> "0", s |-> f[p]]

S_ISREG(s) == s.kind = "Reg"

S_ISDIR(s) == s.kind \in {"Dir", "Locked"}

\* ------------------------------------------------------------------ Status

StatusOK == [code |-> "OK", msg |-> "", path |-> Root, detail |-> ""]

IOError(msg, path, detail) ==
  [code |-> "IOError", msg |-> msg, path |-> path, detail |-> detail]

\* ErrnoToStatus: an IOError carrying the message and the errno text.
ErrnoToStatus(msg, path, errno) == IOError(msg, path, errno)

IsOk(status) == status.code = "OK"

IsIOError(status) == status.code = "IOError"

\* --------------------------------------------------------------- FileStats

kNoSize == -1

kNoTime == -1

\* A default-constructed FileStats.
DefaultStats == [path |-> Root, type |-> "Unknown", size |-> kNoSize, mtime |-> kNoTime]

\* ToTimePoint(const struct timespec&): nanoseconds since the epoch.
ToTimePoint(s) == s.tv_sec * 1000000000 + s.tv_nsec

\* StatToFileStat that hands on st_size whatever the entity is.
StatToFileStat_SizeOfAnything(s) ==
  LET st == IF S_ISREG(s)
              THEN [DefaultStats EXCEPT !.type = "File", !.size = s.st_size]
            ELSE IF S_ISDIR(s)
              THEN [DefaultStats EXCEPT !.type = "Directory", !.size = s.st_size]
            ELSE [DefaultStats EXCEPT !.type = "Unknown", !.size = s.st_size]
  IN [st EXCEPT !.mtime = ToTimePoint(s)]

\* StatToFileStat(const struct stat&)
StatToFileStat(s) ==
  LET st == IF S_ISREG(s)
              THEN [DefaultStats EXCEPT !.type = "File", !.size = s.st_size]
            ELSE IF S_ISDIR(s)
              THEN [DefaultStats EXCEPT !.type = "Directory", !.size = kNoSize]
            ELSE [DefaultStats EXCEPT !.type = "Unknown", !.size = kNoSize]
  IN [st EXCEPT !.mtime = ToTimePoint(s)]

\* AbsenceErrnos with only ENOENT read as absence.
AbsenceErrnos_OnlyENOENT == {"ENOENT"}

\* The errno values StatFile reads as plain absence.
AbsenceErrnos == {"ENOENT", "ENOTDIR", "ELOOP"}

\* StatFile(const std::string& path): a Result<FileStats>.
StatFile(f, path) ==
  LET n == NativeStat(f, path)
  IN IF n.r = -1
       THEN IF n.errno \in AbsenceErrnos
              THEN [ok |-> TRUE, status |-> StatusOK,
                    val |-> [path |-> path, type |-> "NonExistent",
                             size |-> kNoSize, mtime |-> kNoTime]]
            ELSE [ok |-> FALSE,
                  status |-> ErrnoToStatus("Failed stat()ing path", path, n.errno),
                  val |-> DefaultStats]
     ELSE [ok |-> TRUE, status |-> StatusOK,
           val |-> [StatToFileStat(n.s) EXCEPT !.path = path]]

\* ------------------------------------------------ collaborators of the core

\* PlatformFilename::FromString, POSIX: the native path is the given bytes,
\* and no path is rejected.
FromString(path) == [status |-> StatusOK, fn |-> path]

\* internal::FileExists: the existence re-check, made through the stat
\* adapter. It fails when the stat fails.
FileExists(f, fn) ==
  LET r == StatFile(f, fn)
  IN [status |-> r.status, exists |-> r.ok /\ r.val.type # "NonExistent"]

\* internal::ListDir: the names in a directory, or an IOError.
ListDir(f, fn) ==
  LET n == NativeStat(f, fn)
  IN IF n.r = 0 /\ n.s.kind = "Dir"
       THEN [status |-> StatusOK, names |-> {p[Len(p)] : p \in ChildrenOf(f, fn)}]
     ELSE [status |-> IOError("Cannot list directory", fn,
                              IF n.r = -1 THEN n.errno
                              ELSE IF n.s.kind = "Locked" THEN "EACCES" ELSE "ENOTDIR"),
           names |-> {}]

\* The components of fn that stand in the way of creating the chain down to
\* fn: anything on the way that is not a directory.
Obstacles(f, fn) ==
  {i \in 1..Len(fn) :
     /\ f[Prefix(fn, i)].kind \notin {"None", "Dir"}
     /\ ~(i = Len(fn) /\ f[fn].kind = "Locked")}

\* internal::CreateDirTree: every missing ancestor, then the target; success
\* and no change when the whole chain is there.
CreateDirTree(f, fn) ==
  IF Obstacles(f, fn) # {}
    THEN [status |-> IOError("Cannot create directory", fn, "EEXIST"), fs |-> f]
  ELSE [status |-> StatusOK,
        fs |-> [p \in Paths |->
                  IF p # Root /\ Len(p) <= Len(fn) /\ Prefix(fn, Len(p)) = p
                     /\ f[p].kind = "None"
                    THEN NewNode("Dir", 0) ELSE f[p]]]

\* internal::CreateDir: the target alone; its parent must be there.
InternalCreateDir(f, fn) ==
  LET par == NativeStat(f, Parent(fn))
  IN IF par.r = -1 \/ par.s.kind # "Dir"
       THEN [status |-> IOError("Cannot create directory", fn,
                                IF par.r = -1 THEN par.errno
                                ELSE IF par.s.kind = "Locked" THEN "EACCES" ELSE "ENOTDIR"),
             fs |-> f]
     ELSE IF f[fn].kind \in {"Dir", "Locked"} THEN [status |-> StatusOK, fs |-> f]
     ELSE IF f[fn].kind # "None"
       THEN [status |-> IOError("Cannot create directory", fn, "EEXIST"), fs |-> f]
     ELSE [status |-> StatusOK, fs |-> [f EXCEPT ![fn] = NewNode("Dir", 0)]]

\* f without the entries in gone. The sandbox root itself is never a target
\* of a removal.
Without(f, gone) == [p \in Paths |-> IF p \in gone THEN NoNode ELSE f[p]]

SubtreeOf(f, fn) == {p \in Entries(f) : IsUnder(p, fn)}

\* Whether the tree at fn can be walked and emptied: no directory in it
\* denies access.
Removable(f, fn) ==
  f[fn].kind = "Dir" /\ \A p \in SubtreeOf(f, fn) : f[p].kind # "Locked"

\* What the delete primitives answer before they touch anything: the target is
\* absent (success, nothing deleted), cannot be looked at, or is there.
Target(f, fn) ==
  LET n == NativeStat(f, fn)
  IN IF n.r = -1 /\ n.errno \in AbsenceErrnos THEN "absent"
     ELSE IF n.r = -1 THEN "denied"
     ELSE n.s.kind

\* internal::DeleteDirTree: the directory and everything in it; deleted tells
\* whether there was anything to act on.
DeleteDirTree(f, fn) ==
  LET t == Target(f, fn)
  IN IF t = "absent" THEN [status |-> StatusOK, deleted |-> FALSE, fs |-> f]
     ELSE IF t = "Dir" /\ Removable(f, fn)
       THEN [status |-> StatusOK, deleted |-> TRUE,
             fs |-> Without(f, SubtreeOf(f, fn) \cup {fn})]
     ELSE [status |-> IOError("Cannot delete directory", fn,
                              IF t \in {"Reg", "Fifo"} THEN "ENOTDIR" ELSE "EACCES"),
           deleted |-> FALSE, fs |-> f]

\* internal::DeleteDirContents: everything in the directory, not the
\* directory.
InternalDeleteDirContents(f, fn) ==
  LET t == Target(f, fn)
  IN IF t = "absent" THEN [status |-> StatusOK, deleted |-> FALSE, fs |-> f]
     ELSE IF t = "Dir" /\ Removable(f, fn)
       THEN [status |-> StatusOK, deleted |-> TRUE, fs |-> Without(f, SubtreeOf(f, fn))]
     ELSE [status |-> IOError("Cannot delete directory contents", fn,
                              IF t \in {"Reg", "Fifo"} THEN "ENOTDIR" ELSE "EACCES"),
           deleted |-> FALSE, fs |-> f]

\* internal::DeleteFile: one entry that is not a directory.
InternalDeleteFile(f, fn) ==
  LET t == Target(f, fn)
  IN IF t = "absent" THEN [status |-> StatusOK, deleted |-> FALSE, fs |-> f]
     ELSE IF t \in {"Reg", "Fifo"}
       THEN [status |-> StatusOK, deleted |-> TRUE, fs |-> Without(f, {fn})]
     ELSE [status |-> IOError("Cannot delete file", fn,
                              IF t = "denied" THEN "EACCES" ELSE "EISDIR"),
           deleted |-> FALSE, fs |-> f]

\* io::ReadableFile::Open (and MemoryMappedFile::Open): a regular file opens
\* for reading; nothing else does.
OpenReadable(f, path) ==
  LET n == NativeStat(f, path)
  IN IF n.r = 0 /\ n.s.kind = "Reg" THEN StatusOK
     ELSE IOError("Failed to open local file", path,
                  IF n.r = -1 THEN n.errno ELSE "EISDIR")

\* internal::FileOpenWritable with write_only: open(2) with O_CREAT, and with
\* O_TRUNC when truncate. A missing file in a directory is created empty; a
\* regular file is opened, and emptied when truncate.
FileOpenWritable(f, fn, truncate, append) ==
  LET par == NativeStat(f, Parent(fn))
  IN IF par.r = -1 \/ par.s.kind # "Dir" \/ f[fn].kind \notin {"None", "Reg"}
       THEN [status |-> IOError("Failed to open local file", fn,
                                IF par.r = -1 THEN par.errno ELSE "EISDIR"),
             fs |-> f]
     ELSE IF f[fn].kind = "None"
       THEN [status |-> StatusOK, fs |-> [f EXCEPT ![fn] = NewNode("Reg", 0)]]
     ELSE [status |-> StatusOK,
           fs |-> IF truncate THEN [f EXCEPT ![fn].st_size = 0] ELSE f]

\* internal::CopyStream + Close: the bytes the source holds when it is read
\* end up in the destination.
CopyStream(f, src, dest) == [f EXCEPT ![dest].st_size = f[src].st_size]

\* ------------------------------------------------------- LocalFileSystem

\* GetTargetStats(const std::string& path)
GetTargetStats(f, path) ==
  LET fn == FromString(path)
  IN IF ~IsOk(fn.status) THEN [ok |-> FALSE, status |-> fn.status, val |-> DefaultStats]
     ELSE StatFile(f, fn.fn)

\* CreateDir(path, recursive)
CreateDir(f, path, recursive) ==
  LET fn == FromString(path)
  IN IF ~IsOk(fn.status) THEN [status |-> fn.status, fs |-> f]
     ELSE IF recursive THEN CreateDirTree(f, fn.fn)
     ELSE InternalCreateDir(f, fn.fn)

\* DeleteResult that does not look at deleted.
DeleteResult_IgnoresDeleted(r, what, path) ==
  IF ~IsOk(r.status) THEN [status |-> r.status, fs |-> r.fs]
  ELSE [status |-> StatusOK, fs |-> r.fs]

\* The tail the three delete operations share: a primitive's failure is
\* returned as it is; otherwise deleted decides.
DeleteResult(r, what, path) ==
  IF ~IsOk(r.status) THEN [status |-> r.status, fs |-> r.fs]
  ELSE IF r.deleted THEN [status |-> StatusOK, fs |-> r.fs]
  ELSE [status |-> IOError(what, path, ""), fs |-> r.fs]

\* DeleteDir that calls the primitive of DeleteDirContents.
DeleteDir_ContentsOnly(f, path) ==
  LET fn == FromString(path)
  IN IF ~IsOk(fn.status) THEN [status |-> fn.status, fs |-> f]
     ELSE DeleteResult(InternalDeleteDirContents(f, fn.fn), "Directory does not exist", path)

\* DeleteDir(path)
DeleteDir(f, path) ==
  LET fn == FromString(path)
  IN IF ~IsOk(fn.status) THEN [status |-> fn.status, fs |-> f]
     ELSE DeleteResult(DeleteDirTree(f, fn.fn), "Directory does not exist", path)

\* DeleteDirContents(path)
DeleteDirContents(f, path) ==
  LET fn == FromString(path)
  IN IF ~IsOk(fn.status) THEN [status |-> fn.status, fs |-> f]
     ELSE DeleteResult(InternalDeleteDirContents(f, fn.fn), "Directory does not exist", path)

\* DeleteFile(path)
DeleteFile(f, path) ==
  LET fn == FromString(path)
  IN IF ~IsOk(fn.status) THEN [status |-> fn.status, fs |-> f]
     ELSE DeleteResult(InternalDeleteFile(f, fn.fn), "File does not exist", path)

\* OpenOutputStreamGeneric(path, truncate, append)
OpenOutputStreamGeneric(f, path, truncate, append) ==
  LET fn == FromString(path)
  IN IF ~IsOk(fn.status) THEN [status |-> fn.status, fs |-> f]
     ELSE FileOpenWritable(f, fn.fn, truncate, append)

\* OpenOutputStream(path): truncate, do not append.
OpenOutputStream(f, path) == OpenOutputStreamGeneric(f, path, TRUE, FALSE)

\* OpenAppendStream(path): append, do not truncate.
OpenAppendStream(f, path) == OpenOutputStreamGeneric(f, path, FALSE, TRUE)

\* CopyFile without the comparison of the two native paths.
CopyFile_NoSamePathCheck(f, src, dest) ==
  LET sfn == FromString(src)
      dfn == FromString(dest)
      is == OpenReadable(f, src)
      os == OpenOutputStream(f, dest)
  IN IF ~IsOk(sfn.status) THEN [status |-> sfn.status, fs |-> f]
     ELSE IF ~IsOk(dfn.status) THEN [status |-> dfn.status, fs |-> f]
     ELSE IF ~IsOk(is) THEN [status |-> is, fs |-> f]
     ELSE IF ~IsOk(os.status) THEN [status |-> os.status, fs |-> f]
     ELSE [status |-> StatusOK, fs |-> CopyStream(os.fs, src, dest)]

\* CopyFile(src, dest), POSIX: the same native path is a no-op; otherwise the
\* source is opened, then the destination (which truncates it), then copied.
CopyFile(f, src, dest) ==
  LET sfn == FromString(src)
      dfn == FromString(dest)
      is == OpenReadable(f, src)
      os == OpenOutputStream(f, dest)
  IN IF ~IsOk(sfn.status) THEN [status |-> sfn.status, fs |-> f]
     ELSE IF ~IsOk(dfn.status) THEN [status |-> dfn.status, fs |-> f]
     ELSE IF sfn.fn = dfn.fn THEN [status |-> StatusOK, fs |-> f]
     ELSE IF ~IsOk(is) THEN [status |-> is, fs |-> f]
     ELSE IF ~IsOk(os.status) THEN [status |-> os.status, fs |-> f]
     ELSE [status |-> StatusOK, fs |-> CopyStream(os.fs, src, dest)]

\* ---------------------------------------------------------- StatSelector

\* The listing orders ListDir may return for a set of names.
Orders(S) ==
  {o \in [1..Cardinality(S) -> S] : \A i, j \in 1..Cardinality(S) : o[i] = o[j] => i = j}

\* One activation of StatSelector(dir_fn, select, nesting_depth, out): where
\* it stands (about to call ListDir, about to call FileExists after a failed
\* listing, or in the loop over children), the children still to visit and
\* the status of the listing.
Frame(dir, depth) ==
  [dir |-> dir, depth |-> depth, at |-> "ListDir", children |-> << >>,
   status |-> StatusOK]

\* Recheck that does not look at allow_non_existent.
Recheck_IgnoresAllow(select, status) == IsIOError(status)

\* Whether a failed listing is looked at again rather than returned right away.
Recheck(select, status) == select.allow_non_existent /\ IsIOError(status)

\* Keeps that keeps every record.
Keeps_Everything(st) == TRUE

\* Whether the loop keeps the record of a child.
Keeps(st) == st.type # "NonExistent"

\* Descends with the depth compared by <=.
Descends_OffByOne(select, nesting_depth, st) ==
  nesting_depth <= select.max_recursion /\ select.recursive /\ st.type = "Directory"

\* Whether the loop goes down into a child.
Descends(select, nesting_depth, st) ==
  nesting_depth < select.max_recursion /\ select.recursive /\ st.type = "Directory"

\* PushBack that puts the record in front.
PushBack_Front(o, st) == <<st>> \o o

\* out->push_back(st)
PushBack(o, st) == Append(o, st)

\* The activations whose loop is over return OK to their callers.
RECURSIVE Unwind(_)
Unwind(stk) ==
  IF stk # << >> /\ stk[Len(stk)].at = "Loop" /\ stk[Len(stk)].children = << >>
    THEN Unwind(SubSeq(stk, 1, Len(stk) - 1))
  ELSE stk

\* ------------------------------------------------------------------- state

\* fs      the native filesystem below the sandbox root
\* last    the facade call that returned last: its arguments, the filesystem it
\*         started from, and what it returned
\* pc      the GetTargetStats(Selector) call: "idle", "running" or "done"
\* sel     its Selector
\* stack   the activations of StatSelector, innermost last
\* out     the results vector
\* ret     what the call returned
\* fs0     the filesystem when the call began
\* listed  for each directory listed during the call, the order ListDir gave
VARIABLES fs, last, pc, sel, stack, out, ret, fs0, listed

selVars == <<pc, sel, stack, out, ret, fs0, listed>>

vars == <<fs, last, pc, sel, stack, out, ret, fs0, listed>>

NoCall ==
  [op |-> "none", path |-> Root, dest |-> Root, recursive |-> FALSE,
   status |-> StatusOK, val |-> DefaultStats, pre |-> EmptyFs, trail |-> << >>]

NoSelector ==
  [base_dir |-> Root, recursive |-> FALSE, max_recursion |-> 0,
   allow_non_existent |-> FALSE]

NoReturn == [ok |-> TRUE, status |-> StatusOK, val |-> << >>]

Init ==
  /\ fs = EmptyFs
  /\ last = NoCall
  /\ pc = "idle"
  /\ sel = NoSelector
  /\ stack = << >>
  /\ out = << >>
  /\ ret = NoReturn
  /\ fs0 = EmptyFs
  /\ listed = << >>

\* The model keeps at most MaxEntries entries.
Fits(f) == Cardinality(Entries(f)) <= MaxEntries

\* The caller is between calls: it makes one call at a time and looks at what
\* the call returned before the next.
Idle == pc = "idle" /\ last.op = "none"

\* A call that returns r = [status, fs].
Returns(op, path, dest, recursive, r) ==
  /\ Idle
  /\ Fits(r.fs)
  /\ fs' = r.fs
  /\ last' = [op |-> op, path |-> path, dest |-> dest, recursive |-> recursive,
              status |-> r.status, val |-> DefaultStats, pre |-> fs, trail |-> << >>]
  /\ UNCHANGED selVars

StatOne(p) ==
  LET r == GetTargetStats(fs, p)
  IN /\ Idle
     /\ last' = [op |-> "StatOne", path |-> p, dest |-> Root, recursive |-> FALSE,
                 status |-> r.status, val |-> r.val, pre |-> fs, trail |-> << >>]
     /\ UNCHANGED <<fs, selVars>>

CallCreateDir(p, recursive) ==
  Returns("CreateDir", p, Root, recursive, CreateDir(fs, p, recursive))

CallDeleteDir(p) == Returns("DeleteDir", p, Root, FALSE, DeleteDir(fs, p))

CallDeleteDirContents(p) ==
  Returns("DeleteDirContents", p, Root, FALSE, DeleteDirContents(fs, p))

CallDeleteFile(p) == Returns("DeleteFile", p, Root, FALSE, DeleteFile(fs, p))

CallCopyFile(src, dest) == Returns("CopyFile", src, dest, FALSE, CopyFile(fs, src, dest))

\* OpenOutputStream(p), n bytes written to the stream, Close.
CallOpenOutputStream(p, n) ==
  LET r == OpenOutputStream(fs, p)
  IN Returns("OpenOutputStream", p, Root, FALSE,
             IF IsOk(r.status) THEN [r EXCEPT !.fs[p].st_size = n] ELSE r)

\* OpenAppendStream(p), n bytes written to the stream, Close.
CallOpenAppendStream(p, n) ==
  LET r == OpenAppendStream(fs, p)
  IN /\ IsOk(r.status) => r.fs[p].st_size + n <= MaxSize
     /\ Returns("OpenAppendStream", p, Root, FALSE,
                IF IsOk(r.status) THEN [r EXCEPT !.fs[p].st_size = @ + n] ELSE r)

\* The caller's round trip, with nothing else touching the filesystem:
\* CreateDir(p, true), StatOne(p), DeleteDir(p), StatOne(p). The trail holds
\* what the three calls after the first returned.
CallRoundTrip(p) ==
  LET c == CreateDir(fs, p, TRUE)
      s1 == GetTargetStats(c.fs, p)
      d == DeleteDir(c.fs, p)
      s2 == GetTargetStats(d.fs, p)
  IN /\ Idle
     /\ Fits(c.fs)
     /\ fs' = d.fs
     /\ last' = [op |-> "RoundTrip", path |-> p, dest |-> Root, recursive |-> TRUE,
                 status |-> c.status, val |-> DefaultStats, pre |-> fs,
                 trail |-> <<s1, [ok |-> IsOk(d.status), status |-> d.status,
                                  val |-> DefaultStats], s2>>]
     /\ UNCHANGED selVars

\* Another program puts an entry into a directory: a regular file of some
\* length, a directory, a FIFO, a self-referring link or a directory nobody
\* may search.
EnvCreate(p, kind, n) ==
  /\ Idle
  /\ p # Root
  /\ fs[p].kind = "None"
  /\ NativeStat(fs, Parent(p)).r = 0
  /\ fs[Parent(p)].kind = "Dir"
  /\ Fits([fs EXCEPT ![p] = NewNode(kind, n)])
  /\ fs' = [fs EXCEPT ![p] = NewNode(kind, n)]
  /\ UNCHANGED <<last, selVars>>

\* The caller has read the result and is ready for its next call.
Return == pc = "idle" /\ last.op # "none" /\ last' = NoCall /\ UNCHANGED <<fs, selVars>>

Next ==
  \/ \E p \in Paths : StatOne(p)
  \/ \E p \in Paths, recursive \in BOOLEAN : CallCreateDir(p, recursive)
  \/ \E p \in Paths \ {Root} : CallDeleteDir(p)
  \/ \E p \in Paths : CallDeleteDirContents(p)
  \/ \E p \in Paths : CallDeleteFile(p)
  \/ \E src \in Paths, dest \in Paths : CallCopyFile(src, dest)
  \/ \E p \in Paths, n \in 0..MaxSize : CallOpenOutputStream(p, n)
  \/ \E p \in Paths, n \in 0..MaxSize : CallOpenAppendStream(p, n)
  \/ \E p \in Paths \ {Root} : CallRoundTrip(p)
  \/ \E p \in Paths, kind \in {"Fifo", "Loop"} : EnvCreate(p, kind, 0)
  \/ Return

Spec == Init /\ [][Next]_vars

\* ------------------------------------------- the selector call, step by step

\* The base directories tried: the sandbox root, an entry of it and an entry
\* one level further down. Listings come in every order, so which name an
\* entry has makes no difference.
BaseDirs == {Root, <<"a">>, <<"a", "a">>}

Selectors ==
  [base_dir : BaseDirs, recursive : BOOLEAN,
   max_recursion : 0..MaxRecursion, allow_non_existent : BOOLEAN]

\* GetTargetStats(const Selector&) is entered: the path is resolved, results
\* is empty and StatSelector(fn, select, 0, &results) is called.
Begin(select) ==
  LET fn == FromString(select.base_dir)
  IN /\ Idle
     /\ sel' = select
     /\ fs0' = fs
     /\ listed' = << >>
     /\ out' = << >>
     /\ IF ~IsOk(fn.status)
          THEN /\ pc' = "done"
               /\ ret' = [ok |-> FALSE, status |-> fn.status, val |-> << >>]
               /\ stack' = << >>
        ELSE /\ pc' = "running"
             /\ stack' = <<Frame(fn.fn, 0)>>
             /\ ret' = ret
     /\ UNCHANGED <<fs, last>>

\* A failure goes up through every activation (RETURN_NOT_OK) and out of
\* GetTargetStats; results is dropped.
Fail(status) ==
  /\ pc' = "done"
  /\ ret' = [ok |-> FALSE, status |-> status, val |-> << >>]
  /\ stack' = << >>
  /\ out' = << >>

\* The activations in stk go on; when none is left GetTargetStats returns
\* results, held in o.
Continue(stk, o) ==
  LET rest == Unwind(stk)
  IN /\ stack' = rest
     /\ out' = o
     /\ IF rest = << >>
          THEN pc' = "done" /\ ret' = [ok |-> TRUE, status |-> StatusOK, val |-> o]
        ELSE UNCHANGED <<pc, ret>>

Top == stack[Len(stack)]

WithTop(fr) == [stack EXCEPT ![Len(stack)] = fr]

\* Status status = ListDir(dir_fn, &children);
StepListDir ==
  /\ pc = "running" /\ Top.at = "ListDir"
  /\ LET r == ListDir(fs, Top.dir)
     IN IF IsOk(r.status)
          THEN \E o \in Orders(r.names) :
                 /\ listed' = listed @@ (Top.dir :> o)
                 /\ Continue(WithTop([Top EXCEPT !.at = "Loop", !.children = o]), out)
        ELSE IF Recheck(sel, r.status)
          THEN /\ stack' = WithTop([Top EXCEPT !.at = "FileExists", !.status = r.status])
               /\ UNCHANGED <<pc, out, ret, listed>>
        ELSE Fail(r.status) /\ UNCHANGED listed
  /\ UNCHANGED <<fs, last, sel, fs0>>

\* StepFileExists that takes the failed listing for absence without asking.
StepFileExists_NoRecheck ==
  /\ pc = "running" /\ Top.at = "FileExists"
  /\ Continue(SubSeq(stack, 1, Len(stack) - 1), out)
  /\ UNCHANGED <<fs, last, sel, fs0, listed>>

\* RETURN_NOT_OK(FileExists(dir_fn, &exists)); if (!exists) return OK; return status;
StepFileExists ==
  /\ pc = "running" /\ Top.at = "FileExists"
  /\ LET r == FileExists(fs, Top.dir)
     IN IF ~IsOk(r.status) THEN Fail(r.status)
        ELSE IF ~r.exists THEN Continue(SubSeq(stack, 1, Len(stack) - 1), out)
        ELSE Fail(Top.status)
  /\ UNCHANGED <<fs, last, sel, fs0, listed>>

\* One turn of the loop: stat the child, keep its record, go down into it.
\* The type is read after the record was moved into results; moving a
\* FileStats leaves its type as it was.
StepChild ==
  /\ pc = "running" /\ Top.at = "Loop" /\ Top.children # << >>
  /\ LET full_fn == Join(Top.dir, Head(Top.children))
         r == StatFile(fs, full_fn)
         o == IF Keeps(r.val) THEN PushBack(out, r.val) ELSE out
         stk == WithTop([Top EXCEPT !.children = Tail(@)])
     IN IF ~r.ok THEN Fail(r.status)
        ELSE IF Descends(sel, Top.depth, r.val)
          THEN Continue(Append(stk, Frame(full_fn, Top.depth + 1)), o)
        ELSE Continue(stk, o)
  /\ UNCHANGED <<fs, last, sel, fs0, listed>>

\* Another program removes an entry: a file, a link, or an empty directory.
\* While the call runs it removes base_dir or entries under it.
EnvRemove(p) ==
  /\ \/ Idle
     \/ pc = "running" /\ (p = sel.base_dir \/ IsUnder(p, sel.base_dir))
  /\ p \in Entries(fs)
  /\ ChildrenOf(fs, p) = {}
  /\ NativeStat(fs, Parent(p)).r = 0
  /\ fs' = Without(fs, {p})
  /\ UNCHANGED <<last, selVars>>

NextSel ==
  \/ \E p \in Paths, kind \in Kinds \ {"None"}, n \in 0..MaxSize :
       (kind # "Reg" => n = 0) /\ EnvCreate(p, kind, n)
  \/ \E p \in Paths : EnvRemove(p)
  \/ \E p \in Paths : StatOne(p)
  \/ Return
  \/ \E select \in Selectors : Begin(select)
  \/ StepListDir
  \/ StepFileExists
  \/ StepChild

SpecSel == Init /\ [][NextSel]_vars

\* ------------------------------------------------------------ properties

\* The lookup of p is stopped by a directory that denies search: whether p
\* exists cannot be told.
Denied(f, p) == \E i \in 1..(Len(p) - 1) : f[Prefix(p, i)].kind = "Locked"

\* Nothing can be reached at p: no entry, an entry below something that is
\* not a directory, or a link that never resolves.
Missing(f, p) == f[p].kind \in {"None", "Loop"} /\ ~Denied(f, p)

\* C1: StatOne on a path that does not exist (a missing entry, a missing
\* parent, a path through a non-directory, a link that never resolves)
\* returns success with type NonExistent, both sentinels and the given path.
C1_AbsenceIsSuccess ==
  (last.op = "StatOne" /\ Missing(last.pre, last.path)) =>
    /\ IsOk(last.status)
    /\ last.val = [path |-> last.path, type |-> "NonExistent",
                   size |-> kNoSize, mtime |-> kNoTime]

\* C1, its case: StatOne has answered for a path that runs through a regular
\* file.
C1_Witness ==
  /\ last.op = "StatOne"
  /\ Len(last.path) >= 2
  /\ last.pre[Parent(last.path)].kind = "Reg"
  /\ last.val.type = "NonExistent"

DeleteOps == {"DeleteDir", "DeleteDirContents", "DeleteFile"}

DoesNotExist(op) ==
  IF op = "DeleteFile" THEN "File does not exist" ELSE "Directory does not exist"

\* C2: a delete operation on a target that does not exist fails with the
\* IOError "does not exist" and changes nothing; on a directory (DeleteDir,
\* DeleteDirContents) or a file (DeleteFile) that exists it succeeds, and
\* afterwards the target, or everything in it while it stays, is gone and
\* nothing else has changed.
C2_DeleteContract ==
  LET p == last.path
      pre == last.pre
  IN /\ (last.op \in DeleteOps /\ Missing(pre, p)) =>
          /\ last.status = IOError(DoesNotExist(last.op), p, "")
          /\ fs = pre
     /\ (last.op = "DeleteDir" /\ pre[p].kind = "Dir") =>
          /\ IsOk(last.status)
          /\ \A q \in Paths :
               fs[q] = IF q = p \/ IsUnder(q, p) THEN NoNode ELSE pre[q]
     /\ (last.op = "DeleteDirContents" /\ pre[p].kind = "Dir") =>
          /\ IsOk(last.status)
          /\ \A q \in Paths : fs[q] = IF IsUnder(q, p) THEN NoNode ELSE pre[q]
     /\ (last.op = "DeleteFile" /\ pre[p].kind = "Reg") =>
          /\ IsOk(last.status)
          /\ \A q \in Paths : fs[q] = IF q = p THEN NoNode ELSE pre[q]

\* C2, its case: DeleteDirContents has emptied a directory that held entries.
C2_Witness ==
  /\ last.op = "DeleteDirContents"
  /\ IsOk(last.status)
  /\ last.path # Root
  /\ ChildrenOf(last.pre, last.path) # {}
  /\ fs[last.path].kind = "Dir"

\* C5: after CreateDir(p, true) succeeds StatOne(p) answers Directory, and
\* after the DeleteDir(p) that follows succeeds StatOne(p) answers
\* NonExistent.
C5_RoundTrip ==
  (last.op = "RoundTrip" /\ IsOk(last.status)) =>
    /\ last.trail[1].ok /\ last.trail[1].val.type = "Directory"
    /\ last.trail[2].ok =>
         last.trail[3].ok /\ last.trail[3].val.type = "NonExistent"

\* C5, its case: the round trip has run on a path whose parent was missing,
\* and every call of it succeeded.
C5_Witness ==
  /\ last.op = "RoundTrip"
  /\ Len(last.path) >= 2
  /\ last.pre[Parent(last.path)].kind = "None"
  /\ IsOk(last.status)
  /\ last.trail[2].ok
  /\ last.trail[3].val.type = "NonExistent"

\* C6: CopyFile(p, p) succeeds and leaves the filesystem as it was, whatever
\* p is.
C6_CopyOntoItself ==
  (last.op = "CopyFile" /\ last.path = last.dest) =>
    IsOk(last.status) /\ fs = last.pre

\* C6, its case: CopyFile(p, p) has returned for a file that holds bytes.
C6_Witness ==
  /\ last.op = "CopyFile"
  /\ last.path = last.dest
  /\ last.pre[last.path].kind = "Reg"
  /\ last.pre[last.path].st_size > 0

\* The records the selector call returned, as paths.
RetPaths == {ret.val[i].path : i \in 1..Len(ret.val)}

\* The call is over, it returned a sequence, and the filesystem is as it was
\* when the call began (only removals happen during a call).
ReturnedUnchanged == pc = "done" /\ ret.ok /\ fs = fs0

\* Depth of p below the base directory: 0 for its direct children.
DepthBelowBase(p) == Len(p) - Len(sel.base_dir) - 1

\* C3, in the claim's words: the entries under base_dir at depth 0, and at
\* depth up to max_recursion when recursive.
Selected(f) ==
  {p \in Entries(f) :
     /\ IsUnder(p, sel.base_dir)
     /\ DepthBelowBase(p) = 0 \/ (sel.recursive /\ DepthBelowBase(p) <= sel.max_recursion)}

NoDuplicates == \A i, j \in 1..Len(ret.val) : ret.val[i].path = ret.val[j].path => i = j

\* C3 as claimed: on an unchanged filesystem the call returns exactly one
\* record for each selected entry.
C3_Original_EveryEntry ==
  ReturnedUnchanged => NoDuplicates /\ RetPaths = Selected(fs0)

\* C3 as amended: exactly one record for each selected entry that stat finds;
\* an entry whose stat reports absence (a link that never resolves) has no
\* record.
C3_EveryEntryStatFinds ==
  ReturnedUnchanged =>
    /\ NoDuplicates
    /\ RetPaths = {p \in Selected(fs0) : fs0[p].kind # "Loop"}

\* C3, its case: a recursive call with max_recursion = 1 from the sandbox root
\* has returned on an unchanged tree three levels deep.
C3_Witness ==
  /\ ReturnedUnchanged
  /\ sel.recursive /\ sel.max_recursion = 1 /\ sel.base_dir = Root
  /\ \E p \in Entries(fs0) : Len(p) = 3
  /\ Len(ret.val) = 2

\* C4: on a base_dir that does not exist the call returns an empty sequence
\* and no failure when allow_non_existent, and a failure when not.
C4_MissingBaseDir ==
  (pc = "done" /\ Missing(fs0, sel.base_dir)) =>
    IF sel.allow_non_existent THEN ret.ok /\ ret.val = << >> ELSE ~ret.ok

\* C4, its case: the call has returned empty for a missing base_dir.
C4_Witness ==
  /\ pc = "done"
  /\ sel.base_dir # Root
  /\ fs0[sel.base_dir].kind = "None"
  /\ sel.allow_non_existent
  /\ ret.ok

\* Every record a call has handed out: those in results and the one StatOne
\* returned.
Records ==
  {out[i] : i \in 1..Len(out)}
    \cup {ret.val[i] : i \in 1..Len(ret.val)}
    \cup (IF last.op = "StatOne" /\ IsOk(last.status) THEN {last.val} ELSE {})

\* C7 as claimed: size is a value only for File, mtime is a value only for
\* File and Directory, and NonExistent has both sentinels.
C7_Original_Sentinels ==
  \A r \in Records :
    /\ r.size # kNoSize => r.type = "File"
    /\ r.type \in {"Directory", "NonExistent", "Unknown"} => r.size = kNoSize
    /\ r.mtime # kNoTime => r.type \in {"File", "Directory"}
    /\ r.type = "NonExistent" => r.mtime = kNoTime

\* C7 as amended: size is a value only for File, mtime is a value only for
\* File, Directory and Unknown, and NonExistent has both sentinels.
C7_Sentinels ==
  \A r \in Records :
    /\ r.size # kNoSize => r.type = "File"
    /\ r.type \in {"Directory", "NonExistent", "Unknown"} => r.size = kNoSize
    /\ r.mtime # kNoTime => r.type \in {"File", "Directory", "Unknown"}
    /\ r.type = "NonExistent" => r.mtime = kNoTime

\* C7, its case: the selector has returned records of a file, a directory and
\* an entity of another kind.
C7_Witness ==
  /\ pc = "done" /\ ret.ok
  /\ {ret.val[i].type : i \in 1..Len(ret.val)} = {"File", "Directory", "Unknown"}

\* Where name stands in a listing.
Pos(o, name) == CHOOSE i \in 1..Len(o) : o[i] = name

\* C8: the returned sequence is a pre-order walk: a directory comes before
\* what is in it, everything in it comes before its next sibling, and
\* siblings come in the order the listing gave.
C8_PreOrder ==
  (pc = "done" /\ ret.ok) =>
    LET P(i) == ret.val[i].path
        n == Len(ret.val)
    IN /\ \A i, j \in 1..n : IsUnder(P(j), P(i)) => i < j
       /\ \A i, j, k \in 1..n :
            (i < j /\ j < k /\ IsUnder(P(k), P(i))) => IsUnder(P(j), P(i))
       /\ \A i, j \in 1..n :
            (i < j /\ Parent(P(i)) = Parent(P(j))) =>
              /\ Parent(P(i)) \in DOMAIN listed
              /\ Pos(listed[Parent(P(i))], P(i)[Len(P(i))])
                   < Pos(listed[Parent(P(i))], P(j)[Len(P(j))])

\* C8, its case: the call has returned a directory, then an entry in it, then
\* the directory's sibling, the listing having given "b" before "a".
C8_Witness ==
  /\ pc = "done" /\ ret.ok
  /\ Len(ret.val) = 3
  /\ ret.val[1].path = <<"b">>
  /\ IsUnder(ret.val[2].path, ret.val[1].path)
  /\ ret.val[3].path = <<"a">>

\* When the call began base_dir was a directory or missing, and nothing in it
\* denied access.
Walkable(f) ==
  /\ f[sel.base_dir].kind \in {"None", "Loop", "Dir"}
  /\ ~Denied(f, sel.base_dir)
  /\ \A p \in Entries(f) : IsUnder(p, sel.base_dir) => f[p].kind # "Locked"

\* C9: with allow_non_existent, whatever is removed and whenever, the call
\* succeeds, returns no NonExistent record, returns only records of entries
\* that were there, and returns nothing from a directory that was gone when
\* it came to list it.
C9_RacesTolerated ==
  (pc = "done" /\ sel.allow_non_existent /\ Walkable(fs0)) =>
    /\ ret.ok
    /\ \A i \in 1..Len(ret.val) :
         /\ ret.val[i].type # "NonExistent"
         /\ ret.val[i] = StatFile(fs0, ret.val[i].path).val
         /\ Parent(ret.val[i].path) \in DOMAIN listed

\* C9, its case: the call has returned a directory it went on to list, the
\* directory was gone by then, and what it held is not in the result.
C9_Witness ==
  /\ pc = "done" /\ sel.allow_non_existent /\ Walkable(fs0) /\ ret.ok
  /\ \E i \in 1..Len(ret.val) :
       /\ ret.val[i].type = "Directory"
       /\ Descends(sel, DepthBelowBase(ret.val[i].path), ret.val[i])
       /\ ret.val[i].path \notin DOMAIN listed
       /\ ChildrenOf(fs0, ret.val[i].path) # {}

\* A step of the call itself (the other program's steps leave the stack).
CallStep == pc = "running" /\ stack' # stack

\* The call has returned a failure and no sequence.
FailsWith(status) == pc' = "done" /\ ret' = [ok |-> FALSE, status |-> status, val |-> << >>]

\* C10 as claimed: a failed listing is swallowed only when allow_non_existent
\* is set, the failure is an IOError and the re-check finds the directory
\* gone; in every other case the listing failure itself is returned.
C10_Original_ListingFailure ==
  [][ /\ (CallStep /\ Top.at = "ListDir" /\ ~IsOk(ListDir(fs, Top.dir).status)
            /\ ~(sel.allow_non_existent /\ IsIOError(ListDir(fs, Top.dir).status)))
          => FailsWith(ListDir(fs, Top.dir).status)
      /\ (CallStep /\ Top.at = "FileExists") =>
           IF Missing(fs, Top.dir)
             THEN ~(pc' = "done" /\ ~ret'.ok) /\ out' = out
           ELSE FailsWith(Top.status)
    ]_vars

\* C10 as amended: as claimed, except that when the re-check itself fails it
\* is the re-check's failure that is returned.
C10_ListingFailure ==
  [][ /\ (CallStep /\ Top.at = "ListDir" /\ ~IsOk(ListDir(fs, Top.dir).status)
            /\ ~(sel.allow_non_existent /\ IsIOError(ListDir(fs, Top.dir).status)))
          => FailsWith(ListDir(fs, Top.dir).status)
      /\ (CallStep /\ Top.at = "FileExists") =>
           IF Missing(fs, Top.dir)
             THEN ~(pc' = "done" /\ ~ret'.ok) /\ out' = out
           ELSE IF Denied(fs, Top.dir)
             THEN FailsWith(IOError("Failed stat()ing path", Top.dir, "EACCES"))
           ELSE FailsWith(Top.status)
    ]_vars

\* C10, its case: with allow_non_existent set the call has returned the
\* listing failure of a base_dir that is a regular file.
C10_Witness ==
  /\ pc = "done" /\ ~ret.ok
  /\ sel.allow_non_existent
  /\ fs[sel.base_dir].kind = "Reg"
  /\ ret.status.msg = "Cannot list directory"

====
